---- MODULE Spec2Model ----
(***************************************************************************)
(* Model of project.py: the module-level cleaning pipeline of the medical  *)
(* appointments table (read_csv, age filter, to_datetime, DaysDiff,        *)
(* negative-delay filter, str.strip, No_show_flag, AppointmentWeekday,     *)
(* to_csv), the construction and start of the Dash application, and the    *)
(* update_charts callback.                                                 *)
(*                                                                         *)
(* A table is a sequence of rows; a row is a function from column names to *)
(* values, with the pandas index label kept in the field idx.  Text values *)
(* are sequences of one-character strings, so that str.strip is computed.  *)
(* The column 'No-show' is written NoShow.                                 *)
(***************************************************************************)
EXTENDS Integers, Sequences, FiniteSets, TLC

VARIABLES
    pc,        \* position of the script: the statement about to run, "serving" or "failed"
    raw,       \* contents of the input CSV file: a sequence of raw rows (no idx)
    df,        \* the module-level DataFrame df
    file,      \* the output CSV: <<>> while not written, <<rows>> once written
    options,   \* options of the neighbourhood dropdown, <<>> until the layout is built
    charts,    \* <<>> or <<the latest update_charts invocation and its six figures>>
    tieOrder   \* how the build's sort orders equal counts in value_counts

vars == <<pc, raw, df, file, options, charts, tieOrder>>

(***************************************************************************)
(* Bounds of the model.                                                    *)
(***************************************************************************)
MaxRows == 2
MaxTail == 2

(***************************************************************************)
(* Program constants.                                                      *)
(***************************************************************************)
SliderMin == 0
SliderMax == 100
TopN == 20
SecondsPerDay == 86400
\* what Series.map leaves for a value that is no key of the mapping
NaN == -1

Whitespace == {" ", "\t"}

(***************************************************************************)
(* Helpers on rows and tables.                                             *)
(***************************************************************************)
Min(a, b) == IF a <= b THEN a ELSE b

Range(s) == {s[i] : i \in DOMAIN s}

\* df[c] = values: row r with column c set to v (added when absent)
SetCol(r, c, v) == [x \in DOMAIN r \cup {c} |-> IF x = c THEN v ELSE r[x]]

DropCol(r, c) == [x \in DOMAIN r \ {c} |-> r[x]]

SeqsUpTo(S, n) == UNION {[1..k -> S] : k \in 0..n}

Reverse(s) == [i \in 1..Len(s) |-> s[Len(s) + 1 - i]]

(***************************************************************************)
(* str.strip(): remove leading and trailing whitespace.                    *)
(***************************************************************************)
RECURSIVE LStrip(_)
LStrip(s) == IF s # <<>> /\ Head(s) \in Whitespace THEN LStrip(Tail(s)) ELSE s

RECURSIVE RStrip(_)
RStrip(s) ==
    IF s # <<>> /\ s[Len(s)] \in Whitespace
    THEN RStrip(SubSeq(s, 1, Len(s) - 1)) ELSE s

StrStripRaw(s) == s

StrStrip(s) == RStrip(LStrip(s))

(***************************************************************************)
(* Timestamps.  A raw value is the text of the CSV cell: fmt "iso" with    *)
(* the day number d (days since 1970-01-01) and second of the day s that   *)
(* the text denotes, or fmt "junk" for text pd.to_datetime cannot parse.   *)
(* A parsed value is [d, s].                                               *)
(***************************************************************************)
Parseable(v) == v.fmt = "iso"

ToDatetime(v) == [d |-> v.d, s |-> v.s]

\* (AppointmentDay - ScheduledDay).dt.days: the days component of the
\* Timedelta, i.e. the floor of the difference in seconds over one day
TimedeltaDays(a, b) ==
    LET secs == (a.d * SecondsPerDay + a.s) - (b.d * SecondsPerDay + b.s)
    IN  IF secs >= 0 THEN secs \div SecondsPerDay
        ELSE -((-secs + SecondsPerDay - 1) \div SecondsPerDay)

WeekdayNames ==
    <<"Thursday", "Friday", "Saturday", "Sunday", "Monday", "Tuesday", "Wednesday">>

\* Timestamp.day_name(); 1970-01-01 (d = 0) is a Thursday
DayName(t) == WeekdayNames[(t.d % 7) + 1]

(***************************************************************************)
(* Text values used by the program and by the inputs.                      *)
(***************************************************************************)
No == <<"N", "o">>
Yes == <<"Y", "e", "s">>

(***************************************************************************)
(* The statements of the cleaning pipeline, as functions on tables.        *)
(***************************************************************************)
\* pd.read_csv: one row per record, labelled by a RangeIndex starting at 0
ReadCsv(rows) == [i \in DOMAIN rows |-> SetCol(rows[i], "idx", i - 1)]

\* df[df['Age'] >= 0]: boolean-mask selection keeps the rows' order and labels
AgeFilterNone(t) == t

AgeFilter(t) == SelectSeq(t, LAMBDA r : r.Age >= 0)

\* pd.to_datetime(df[c]) raises when some cell of the column cannot be parsed
ColumnParseable(t, c) == \A i \in DOMAIN t : Parseable(t[i][c])

ParseColumn(t, c) == [i \in DOMAIN t |-> SetCol(t[i], c, ToDatetime(t[i][c]))]

\* df['DaysDiff'] = (df['AppointmentDay'] - df['ScheduledDay']).dt.days
WithDaysDiff(t) ==
    [i \in DOMAIN t |->
        SetCol(t[i], "DaysDiff", TimedeltaDays(t[i].AppointmentDay, t[i].ScheduledDay))]

\* df[df['DaysDiff'] >= 0]
DelayFilterReversed(t) == Reverse(SelectSeq(t, LAMBDA r : r.DaysDiff >= 0))

DelayFilter(t) == SelectSeq(t, LAMBDA r : r.DaysDiff >= 0)

\* df[c] = df[c].str.strip() for Gender, Neighbourhood and No-show
StripText(t) ==
    [i \in DOMAIN t |->
        SetCol(SetCol(SetCol(t[i],
            "Gender", StrStrip(t[i].Gender)),
            "Neighbourhood", StrStrip(t[i].Neighbourhood)),
            "NoShow", StrStrip(t[i].NoShow))]

\* Series.map({'No': 0, 'Yes': 1}): a value that is no key maps to NaN
MapNoShow(v) == IF v = No THEN 0 ELSE IF v = Yes THEN 1 ELSE NaN

WithFlag(t) == [i \in DOMAIN t |-> SetCol(t[i], "No_show_flag", MapNoShow(t[i].NoShow))]

\* df['AppointmentWeekday'] = df['AppointmentDay'].dt.day_name()
WithWeekday(t) ==
    [i \in DOMAIN t |-> SetCol(t[i], "AppointmentWeekday", DayName(t[i].AppointmentDay))]

\* df.to_csv(path, index=False): the rows in order, without the index labels
ToCsv(t) == [i \in DOMAIN t |-> DropCol(t[i], "idx")]

\* sorted(df['Neighbourhood'].unique()): the dropdown's option values
\* (their display order does not enter any figure; kept as a set)
DropdownOptions(t) == {t[i].Neighbourhood : i \in DOMAIN t}

(***************************************************************************)
(* The pipeline's steps.  Any exception raised at module level ends the    *)
(* process: pc = "failed".                                                 *)
(***************************************************************************)
Goto(next, newdf) ==
    /\ pc' = next
    /\ df' = newdf
    /\ UNCHANGED <<raw, file, options, charts, tieOrder>>

\* where an uncaught exception at module level leaves the script
AfterExceptionContinue(next) == next

AfterException(next) == "failed"

Raise(next) ==
    /\ pc' = AfterException(next)
    /\ UNCHANGED <<raw, df, file, options, charts, tieOrder>>

Load ==
    /\ pc = "read_csv"
    /\ Goto("age_filter", ReadCsv(raw))

\* the source file is missing or unreadable
LoadFail ==
    /\ pc = "read_csv"
    /\ Raise("age_filter")

FilterAge ==
    /\ pc = "age_filter"
    /\ Goto("parse_scheduled", AgeFilter(df))

ParseScheduled ==
    /\ pc = "parse_scheduled"
    /\ ColumnParseable(df, "ScheduledDay")
    /\ Goto("parse_appointment", ParseColumn(df, "ScheduledDay"))

ParseScheduledFail ==
    /\ pc = "parse_scheduled"
    /\ ~ColumnParseable(df, "ScheduledDay")
    /\ Raise("parse_appointment")

ParseAppointment ==
    /\ pc = "parse_appointment"
    /\ ColumnParseable(df, "AppointmentDay")
    /\ Goto("days_diff", ParseColumn(df, "AppointmentDay"))

ParseAppointmentFail ==
    /\ pc = "parse_appointment"
    /\ ~ColumnParseable(df, "AppointmentDay")
    /\ Raise("days_diff")

DeriveDaysDiff ==
    /\ pc = "days_diff"
    /\ Goto("delay_filter", WithDaysDiff(df))

FilterDelay ==
    /\ pc = "delay_filter"
    /\ Goto("strip", DelayFilter(df))

Strip ==
    /\ pc = "strip"
    /\ Goto("flag", StripText(df))

DeriveFlag ==
    /\ pc = "flag"
    /\ Goto("weekday", WithFlag(df))

DeriveWeekday ==
    /\ pc = "weekday"
    /\ Goto("to_csv", WithWeekday(df))

Save ==
    /\ pc = "to_csv"
    /\ pc' = "layout"
    /\ file' = <<ToCsv(df)>>
    /\ UNCHANGED <<raw, df, options, charts, tieOrder>>

\* the destination cannot be written
SaveFail ==
    /\ pc = "to_csv"
    /\ Raise("layout")

\* app = dash.Dash(...); app.layout = ...; @app.callback registration
BuildApp ==
    /\ pc = "layout"
    /\ pc' = "run"
    /\ options' = <<DropdownOptions(df)>>
    /\ UNCHANGED <<raw, df, file, charts, tieOrder>>

\* app.run(debug=True): from here on the server dispatches callbacks
RunApp ==
    /\ pc = "run"
    /\ pc' = "serving"
    /\ UNCHANGED <<raw, df, file, options, charts, tieOrder>>

(***************************************************************************)
(* update_charts(selected_neighborhood, age_range).                        *)
(* A selector is [set, val]: set = FALSE is None, otherwise val is the     *)
(* string received; age_range is <<lo, hi>>.                               *)
(***************************************************************************)
None == [set |-> FALSE, val |-> <<>>]

Chosen(name) == [set |-> TRUE, val |-> name]

\* `if selected_neighborhood:` is Python truthiness: None and '' are falsy
Truthy(sel) == sel.set /\ sel.val # <<>>

\* dff[dff['Neighbourhood'] == selected_neighborhood]
NeighbourhoodFilter(t, sel) ==
    IF Truthy(sel) THEN SelectSeq(t, LAMBDA r : r.Neighbourhood = sel.val) ELSE t

\* dff[(dff['Age'] >= age_range[0]) & (dff['Age'] <= age_range[1])]
AgeRangeFilter(t, range) ==
    SelectSeq(t, LAMBDA r : r.Age >= range[1] /\ r.Age <= range[2])

Column(t, c) == [i \in DOMAIN t |-> t[i][c]]

Count(col, v) == Cardinality({i \in DOMAIN col : col[i] = v})

\* the distinct values of a column in order of first appearance
RECURSIVE Uniques(_)
Uniques(col) ==
    IF col = <<>> THEN <<>>
    ELSE LET u == Uniques(SubSeq(col, 1, Len(col) - 1))
             v == col[Len(col)]
         IN  IF v \in Range(u) THEN u ELSE Append(u, v)

\* the row count of each distinct value of a column
Counts(col) == [v \in Range(col) |-> Count(col, v)]

\* the position in u of the value sorted first: the highest count, and among
\* equal counts the lowest position
First(u, cnt) ==
    CHOOSE i \in DOMAIN u :
        \A j \in DOMAIN u :
            \/ cnt[u[i]] > cnt[u[j]]
            \/ cnt[u[i]] = cnt[u[j]] /\ i <= j

RECURSIVE SortByCount(_, _)
SortByCount(u, cnt) ==
    IF u = <<>> THEN <<>>
    ELSE LET i == First(u, cnt)
         IN  <<u[i]>> \o SortByCount(SubSeq(u, 1, i - 1) \o SubSeq(u, i + 1, Len(u)), cnt)

\* Series.value_counts().index: the distinct values by descending count.
\* Equal counts keep the order the sort leaves them in, which is fixed by
\* their positions in order of first appearance: a stable sort keeps that
\* order ("first"); the other build modelled reverses it ("last").
ValueCountsIndex(col) ==
    SortByCount(IF tieOrder = "first" THEN Uniques(col) ELSE Reverse(Uniques(col)),
                Counts(col))

\* .head(20)
HeadN(s) == SubSeq(s, 1, Min(TopN, Len(s)))

\* top_nb = dff['Neighbourhood'].value_counts().head(20).index
TopNb(t) == HeadN(ValueCountsIndex(Column(t, "Neighbourhood")))

\* dff['HasChronic'] = dff[['Hipertension','Diabetes','Alcoholism']].sum(axis=1)
\* dff['ChronicCondition'] = 'Yes' if HasChronic > 0 else 'No'
WithChronic(t) ==
    [i \in DOMAIN t |->
        LET n == t[i].Hipertension + t[i].Diabetes + t[i].Alcoholism
        IN  SetCol(SetCol(t[i], "HasChronic", n),
                   "ChronicCondition", IF n > 0 THEN Yes ELSE No)]

\* the data a px figure is built from: the named columns of the frame, row by row
Columns(t, cs) == [i \in DOMAIN t |-> [c \in cs |-> t[i][c]]]

\* px.pie(dff, names='No-show'): one slice per outcome, sized by its row count
PieCounts(t) ==
    [o \in Range(Column(t, "NoShow")) |-> Count(Column(t, "NoShow"), o)]

\* the module-level df once update_charts has returned: the function works on
\* dff = df.copy() and frames derived from it, and never rebinds or writes df
CanonicalAliased(t, dff) == dff

Canonical(t, dff) == t

\* the frame the neighbourhood counts are taken over
CountedWhole(t, dff) == t

Counted(t, dff) == dff

\* the six figures returned for the filtered frame dff2, its neighbourhood
\* ranking top_nb and the frame dff3 that carries the chronic columns
Figures(sel, range, dff2, top_nb, dff3) ==
    [selected_neighborhood |-> sel,
     age_range |-> range,
     dff |-> dff3,
     pie |-> PieCounts(dff2),
     age_gender |-> Columns(dff2, {"Age", "Gender"}),
     weekday |-> Columns(dff2, {"AppointmentWeekday", "NoShow"}),
     top_nb |-> top_nb,
     nb |-> Columns(SelectSeq(dff2, LAMBDA r : r.Neighbourhood \in Range(top_nb)),
                    {"Neighbourhood", "NoShow"}),
     chronic |-> Columns(dff3, {"ChronicCondition", "NoShow"}),
     delay |-> Columns(dff3, {"NoShow", "DaysDiff"})]

UpdateCharts(sel, range) ==
    /\ pc = "serving"
    /\ \E dff2 \in {AgeRangeFilter(NeighbourhoodFilter(df, sel), range)} :
       \E top_nb \in {TopNb(Counted(df, dff2))} :
       \E dff3 \in {WithChronic(dff2)} :
           /\ charts' = <<Figures(sel, range, dff2, top_nb, dff3)>>
           /\ df' = Canonical(df, dff3)
    /\ UNCHANGED <<pc, raw, file, options, tieOrder>>

(***************************************************************************)
(* Inputs: the rows an input file may hold and the callback's arguments.   *)
(***************************************************************************)
Iso(d, s) == [fmt |-> "iso", d |-> d, s |-> s]

Junk == [fmt |-> "junk", d |-> 0, s |-> 0]

Row(age, sched, appt, noshow, nb, gender, chronic) ==
    [Age |-> age, ScheduledDay |-> sched, AppointmentDay |-> appt,
     NoShow |-> noshow, Neighbourhood |-> nb, Gender |-> gender,
     Hipertension |-> chronic[1], Diabetes |-> chronic[2], Alcoholism |-> chronic[3]]

\* 2016-05-05 is day 16926 and 2016-05-10 is day 16931; 67088 s is 18:38:08
Booked == Iso(16926, 67088)
Visit == Iso(16931, 0)

Ages == {-1, 0, 18, 115}
ScheduledStamps == {Booked, Iso(16931, 0)}
AppointmentStamps == {Iso(16926, 0), Visit}

AgeRows == {Row(a, Booked, Visit, No, <<"A">>, <<"F">>, <<0, 0, 0>>) : a \in Ages}

DateRows ==
    {Row(18, sc, ap, No, <<"A">>, <<"F">>, <<0, 0, 0>>) :
        sc \in ScheduledStamps, ap \in AppointmentStamps}

JunkRows ==
    {Row(18, Junk, Visit, No, <<"A">>, <<"F">>, <<0, 0, 0>>),
     Row(18, Booked, Junk, No, <<"A">>, <<"F">>, <<0, 0, 0>>),
     Row(-1, Junk, Junk, No, <<"A">>, <<"F">>, <<0, 0, 0>>)}

\* pairs of a No-show text and a Neighbourhood text, with and without
\* surrounding whitespace
Texts ==
    {<<No, <<"A">>>>,
     <<<<" ", "Y", "e", "s", " ">>, <<"B", " ">>>>,
     <<<<"N", "o", "\t">>, <<" ">>>>,
     <<<<"M", "a", "y", "b", "e">>, <<" ", "A">>>>}

TextRows ==
    {Row(65, Booked, Visit, tx[1], tx[2], <<" ", "M">>, <<0, 0, 0>>) : tx \in Texts}

ChronicRows == {Row(18, Booked, Visit, Yes, <<"B">>, <<"F">>, <<0, 1, 1>>)}

InputRows == AgeRows \cup DateRows \cup JunkRows \cup TextRows \cup ChronicRows

Selectors == {None, Chosen(<<>>), Chosen(<<"B">>), Chosen(<<"Z">>)}

AgeRanges == {<<SliderMin, SliderMax>>, <<18, 65>>, <<0, 17>>}

TieOrders == {"first", "last"}

Start(rows) ==
    /\ pc = "read_csv"
    /\ raw = rows
    /\ df = <<>>
    /\ file = <<>>
    /\ options = <<>>
    /\ charts = <<>>
    /\ tieOrder \in TieOrders

Init == \E rows \in SeqsUpTo(InputRows, MaxRows) : Start(rows)

Next ==
    \/ Load
    \/ LoadFail
    \/ FilterAge
    \/ ParseScheduled
    \/ ParseScheduledFail
    \/ ParseAppointment
    \/ ParseAppointmentFail
    \/ DeriveDaysDiff
    \/ FilterDelay
    \/ Strip
    \/ DeriveFlag
    \/ DeriveWeekday
    \/ Save
    \/ SaveFail
    \/ BuildApp
    \/ RunApp
    \/ \E sel \in Selectors, range \in AgeRanges : UpdateCharts(sel, range)

Spec == Init /\ [][Next]_vars

(***************************************************************************)
(* Inputs with more than TopN neighbourhoods: one row for each of TopN     *)
(* neighbourhoods, preceded and followed by a few rows that add further    *)
(* neighbourhoods or repeat one.                                           *)
(***************************************************************************)
Letters ==
    <<"A", "B", "C", "D", "E", "F", "G", "H", "I", "J", "K",
      "L", "M", "N", "O", "P", "Q", "R", "S", "T", "U", "V">>

NbRow(age, k) == Row(age, Booked, Visit, No, <<Letters[k]>>, <<"F">>, <<0, 0, 0>>)

BaseTable == [k \in 1..TopN |-> NbRow(18, k)]

Heads ==
    {<<>>,
     <<NbRow(18, TopN + 2)>>,
     <<Row(18, Junk, Visit, No, <<"A">>, <<"F">>, <<0, 0, 0>>)>>,
     <<Row(18, Booked, Junk, No, <<"A">>, <<"F">>, <<0, 0, 0>>)>>}

TailRows == {NbRow(18, 1), NbRow(18, TopN + 1), NbRow(115, TopN + 1), NbRow(18, TopN + 2)}

InitTop ==
    \E h \in Heads, t \in SeqsUpTo(TailRows, MaxTail) : Start(h \o BaseTable \o t)

SpecTop == InitTop /\ [][Next]_vars

(***************************************************************************)
(* Vocabulary of the properties.                                           *)
(***************************************************************************)
Statements ==
    <<"read_csv", "age_filter", "parse_scheduled", "parse_appointment", "days_diff",
      "delay_filter", "strip", "flag", "weekday", "to_csv", "layout", "run", "serving">>

Pos(stmt) == CHOOSE k \in DOMAIN Statements : Statements[k] = stmt

\* the statement stmt has been executed
Past(stmt) == pc # "failed" /\ Pos(pc) > Pos(stmt)

\* the input row a row of df or dff was read from
Origin(r) == raw[r.idx + 1]

Labels(t) == [i \in DOMAIN t |-> t[i].idx]

\* the positions of the input rows with a valid age whose parsed timestamps
\* give a non-negative DaysDiff
Survivors ==
    {k \in DOMAIN raw :
        /\ raw[k].Age >= 0
        /\ TimedeltaDays(ToDatetime(raw[k].AppointmentDay),
                         ToDatetime(raw[k].ScheduledDay)) >= 0}

NoEdgeWhitespace(s) == s = <<>> \/ (s[1] \notin Whitespace /\ s[Len(s)] \notin Whitespace)

\* c is text with whitespace (only) removed from both of its ends
IsTrimOf(c, text) ==
    /\ NoEdgeWhitespace(c)
    /\ \E a \in 0..Len(text) :
        /\ a + Len(c) <= Len(text)
        /\ SubSeq(text, a + 1, a + Len(c)) = c
        /\ \A k \in (1..a) \cup ((a + Len(c) + 1)..Len(text)) : text[k] \in Whitespace

(***************************************************************************)
(* C1: every row of the cleaned table, in memory and in the persisted      *)
(* file, has Age >= 0 and DaysDiff >= 0, and no input row with Age < 0 or  *)
(* with an appointment date before its scheduling date is among them.      *)
(***************************************************************************)
C1_Thm ==
    /\ Past("delay_filter") =>
        \A i \in DOMAIN df :
            /\ df[i].Age >= 0
            /\ df[i].DaysDiff >= 0
            /\ Origin(df[i]).Age >= 0
            /\ ~(Origin(df[i]).AppointmentDay.d < Origin(df[i]).ScheduledDay.d)
    /\ file # <<>> =>
        /\ Len(file[1]) = Len(df)
        /\ \A i \in DOMAIN file[1] : file[1][i].Age >= 0 /\ file[1][i].DaysDiff >= 0

C1_Witness ==
    /\ pc = "serving"
    /\ Len(file[1]) = 1
    /\ \E k \in DOMAIN raw :
        raw[k].Age < 0 \/ raw[k].AppointmentDay.d < raw[k].ScheduledDay.d

(***************************************************************************)
(* C2: DaysDiff is the number of calendar days from the date of            *)
(* ScheduledDay to the date of AppointmentDay, the times of day ignored,   *)
(* and a row booked and held on the same date is kept with DaysDiff = 0.   *)
(***************************************************************************)
C2_Claim ==
    /\ Past("days_diff") =>
        \A i \in DOMAIN df : df[i].DaysDiff = df[i].AppointmentDay.d - df[i].ScheduledDay.d
    /\ Past("delay_filter") =>
        \A k \in DOMAIN raw :
            (raw[k].Age >= 0 /\ raw[k].AppointmentDay.d = raw[k].ScheduledDay.d)
                => \E i \in DOMAIN df : df[i].idx = k - 1 /\ df[i].DaysDiff = 0

(***************************************************************************)
(* C3: when a surviving row's trimmed No-show is neither "No" nor "Yes"    *)
(* the pipeline fails: no flag is left empty, no file is written and the   *)
(* dashboard is not started.                                               *)
(***************************************************************************)
C3_Claim ==
    (Past("flag") /\ \E i \in DOMAIN df : df[i].NoShow \notin {No, Yes}) =>
        /\ \A i \in DOMAIN df : df[i].No_show_flag \in {0, 1}
        /\ file = <<>>
        /\ pc \notin {"run", "serving"}

(***************************************************************************)
(* C4: in every row of the cleaned table No-show has no leading or         *)
(* trailing whitespace, it is the input text trimmed, and No_show_flag is  *)
(* 1 exactly when it equals "Yes" (0 when it equals "No").                 *)
(***************************************************************************)
C4_Thm ==
    Past("flag") =>
        \A i \in DOMAIN df :
            /\ IsTrimOf(df[i].NoShow, Origin(df[i]).NoShow)
            /\ df[i].No_show_flag = 1 <=> df[i].NoShow = Yes
            /\ df[i].NoShow = No => df[i].No_show_flag = 0
            /\ file # <<>> =>
                /\ file[1][i].NoShow = df[i].NoShow
                /\ file[1][i].No_show_flag = df[i].No_show_flag

C4_Witness ==
    /\ pc = "serving"
    /\ \E i \in DOMAIN df :
        /\ Origin(df[i]).NoShow = <<" ", "Y", "e", "s", " ">>
        /\ df[i].NoShow = Yes
        /\ df[i].No_show_flag = 1
    /\ \E i \in DOMAIN df :
        /\ Origin(df[i]).NoShow = <<"N", "o", "\t">>
        /\ df[i].No_show_flag = 0

(***************************************************************************)
(* C5: with no neighbourhood selected and the slider's full range [0,100]  *)
(* the filtered frame of update_charts is the whole cleaned table.         *)
(***************************************************************************)
C5_Claim ==
    (/\ charts # <<>>
     /\ charts[1].selected_neighborhood = None
     /\ charts[1].age_range = <<SliderMin, SliderMax>>)
        => Labels(charts[1].dff) = Labels(df)

(***************************************************************************)
(* C6: the filtered frame of update_charts is exactly the cleaned rows     *)
(* whose neighbourhood equals the selector (all rows when the selector is  *)
(* None) and whose age lies in [lo, hi], bounds included; the pie counts   *)
(* those rows by outcome; a selector that names no neighbourhood of the    *)
(* data gives the empty frame.                                             *)
(***************************************************************************)
C6_Claim ==
    charts # <<>> =>
        LET sel == charts[1].selected_neighborhood
            lo == charts[1].age_range[1]
            hi == charts[1].age_range[2]
            want == SelectSeq(df, LAMBDA r :
                        /\ sel.set => r.Neighbourhood = sel.val
                        /\ lo <= r.Age /\ r.Age <= hi)
        IN  /\ Labels(charts[1].dff) = Labels(want)
            /\ charts[1].pie = PieCounts(want)

(***************************************************************************)
(* C7 as claimed: the neighbourhoods of figure (d) are at most 20, they    *)
(* are those with the highest counts in the filtered frame, and which of   *)
(* the neighbourhoods tied at the 20th place are taken does not depend on  *)
(* the order of the rows: the same rows in reverse order give the same     *)
(* neighbourhoods.                                                         *)
(***************************************************************************)
C7_Claim ==
    charts # <<>> =>
        LET col == Column(charts[1].dff, "Neighbourhood")
            top == Range(charts[1].top_nb)
        IN  /\ Cardinality(top) <= TopN
            /\ \A a \in top, b \in Range(col) \ top : Count(col, b) <= Count(col, a)
            /\ top = Range(TopNb(Reverse(charts[1].dff)))

(***************************************************************************)
(* C7 amended: the neighbourhoods of figure (d) are min(20, number of      *)
(* distinct neighbourhoods of the filtered frame) neighbourhoods of the    *)
(* filtered frame, no neighbourhood left out has a strictly higher count   *)
(* in the filtered frame than one taken, and the figure holds exactly the  *)
(* filtered rows of the neighbourhoods taken.                              *)
(***************************************************************************)
C7_Thm ==
    charts # <<>> =>
        LET col == Column(charts[1].dff, "Neighbourhood")
            top == Range(charts[1].top_nb)
        IN  /\ Cardinality(top) = Min(TopN, Cardinality(Range(col)))
            /\ Len(charts[1].top_nb) = Cardinality(top)
            /\ top \subseteq Range(col)
            /\ \A a \in top, b \in Range(col) \ top : Count(col, b) <= Count(col, a)
            /\ charts[1].nb =
                Columns(SelectSeq(charts[1].dff, LAMBDA r : r.Neighbourhood \in top),
                        {"Neighbourhood", "NoShow"})

\* more than 20 neighbourhoods in the filtered frame, one of them with two
\* rows, and a neighbourhood left out that ties with one taken
C7_Witness ==
    /\ charts # <<>>
    /\ LET col == Column(charts[1].dff, "Neighbourhood")
           top == Range(charts[1].top_nb)
       IN  /\ Cardinality(Range(col)) > TopN
           /\ Len(col) < Len(df)
           /\ \E a \in top : Count(col, a) = 2
           /\ \E a \in top, b \in Range(col) \ top : Count(col, a) = Count(col, b)

(***************************************************************************)
(* C8: a request is served, and the dashboard is built and started, only   *)
(* after reading, cleaning, derivation and writing of the cleaned table    *)
(* have all completed; after a failed step the script is in the failed     *)
(* state, where nothing was built, nothing is served and nothing changes.  *)
(***************************************************************************)
DerivedColumns == {"DaysDiff", "No_show_flag", "AppointmentWeekday"}

PipelineDone ==
    /\ \A k \in DOMAIN raw :
        raw[k].Age >= 0 => Parseable(raw[k].ScheduledDay) /\ Parseable(raw[k].AppointmentDay)
    /\ Range(Labels(df)) = {k - 1 : k \in Survivors}
    /\ \A i \in DOMAIN df : DerivedColumns \subseteq DOMAIN df[i]
    /\ file = <<ToCsv(df)>>

C8_State ==
    /\ (charts # <<>> \/ options # <<>> \/ pc \in {"layout", "run", "serving"}) => PipelineDone
    /\ charts # <<>> => pc = "serving" /\ options # <<>>
    /\ pc = "failed" => charts = <<>> /\ options = <<>>

C8_Thm == [] C8_State /\ [][pc = "failed" => pc' = "failed"]_vars

C8_Witness ==
    /\ charts # <<>>
    /\ charts[1].dff # <<>>
    /\ Len(df) < Len(raw)

(***************************************************************************)
(* C9: while requests are served the module-level table is the table that  *)
(* was persisted: the same rows and values, no HasChronic or               *)
(* ChronicCondition column; and the frame a request works on is what its   *)
(* two filter inputs select from the persisted table.                      *)
(***************************************************************************)
C9_Thm ==
    pc = "serving" =>
        /\ file = <<ToCsv(df)>>
        /\ \A i \in DOMAIN df : DOMAIN df[i] \cap {"HasChronic", "ChronicCondition"} = {}
        /\ charts # <<>> =>
            ToCsv(charts[1].dff) =
                WithChronic(AgeRangeFilter(
                    NeighbourhoodFilter(file[1], charts[1].selected_neighborhood),
                    charts[1].age_range))

C9_Witness ==
    /\ charts # <<>>
    /\ charts[1].dff # <<>>
    /\ Len(charts[1].dff) < Len(df)
    /\ \E i \in DOMAIN charts[1].dff : charts[1].dff[i].HasChronic > 0

(***************************************************************************)
(* C10: the cleaned table holds exactly the input rows that pass the age   *)
(* filter and the negative-delay filter, each once and in input order, and *)
(* the persisted file holds the same rows in the same order without the    *)
(* index.                                                                  *)
(***************************************************************************)
C10_Thm ==
    /\ Past("delay_filter") =>
        /\ \A i, j \in DOMAIN df : i < j => df[i].idx < df[j].idx
        /\ Range(Labels(df)) = {k - 1 : k \in Survivors}
        /\ \A i \in DOMAIN df :
            /\ df[i].Age = Origin(df[i]).Age
            /\ df[i].AppointmentDay = ToDatetime(Origin(df[i]).AppointmentDay)
            /\ df[i].ScheduledDay = ToDatetime(Origin(df[i]).ScheduledDay)
    /\ file # <<>> =>
        /\ Len(file[1]) = Len(df)
        /\ \A i \in DOMAIN df :
            /\ "idx" \notin DOMAIN file[1][i]
            /\ \A c \in DOMAIN df[i] \ {"idx"} : file[1][i][c] = df[i][c]

C10_Witness ==
    /\ file # <<>>
    /\ Len(file[1]) = 2
    /\ raw[1] # raw[2]

====
